---- MODULE Spec2Model ----
(***************************************************************************)
(* Model of the upload pipeline of basin-w3s (uploader.go):                *)
(*   Uploader.Upload -> createCar (writeFile, Finalize, ReplaceRootsInFile)*)
(*                   -> w3sclient.upload (storeShard*, upload/add)         *)
(*                   -> deferred removeTmp.                                *)
(* Every fallible call of the source is a step whose outcome is chosen     *)
(* nondeterministically among the outcomes the call can produce.           *)
(***************************************************************************)
EXTENDS Integers, Sequences, FiniteSets, TLC

(* ---------------------------- bounds ----------------------------------- *)
\* longest input stream, in bytes
MaxLen == 3
\* leaf chunk size of the DAG builder, in bytes (scaled down)
ChunkSize == 2
\* sharding.ShardSize, in bytes (scaled down); a stream of ChunkSize bytes
\* makes a container of exactly this size
ShardSize == 5
\* serialized length of one content identifier (scaled down)
CidLen == 1

Byte == {0, 1}
Reqs == {"r1", "r2"}
Paths == {"t1.car", "t2.car"}

\* largest size limit the sharder is tried with
MaxLimit == 10

(* ------------------------- pure helpers -------------------------------- *)
RECURSIVE SeqsUpTo(_)
SeqsUpTo(n) ==
  IF n = 0 THEN {<<>>}
  ELSE LET S == SeqsUpTo(n - 1)
       IN  S \cup {Append(s, b) : s \in {t \in S : Len(t) = n - 1}, b \in Byte}

Streams == SeqsUpTo(MaxLen)

\* multihash.Sum(x, SHA2_256, -1): an ideal (collision free) digest of x
Sha256(x) == <<"sha2-256", x>>

\* cid.NewCidV1(codec, mh)
NewCidV1(codec, mh) == [codec |-> codec, mh |-> mh]

\* cid.Undef / cid.Cid{}
CidUndef == [codec |-> "undef", mh |-> <<>>]

\* payload of a leaf block (raw file bytes) and of a linking node
LeafData(bytes) == [bytes |-> bytes, links |-> <<>>]
NodeData(links) == [bytes |-> <<>>, links |-> links]

\* the placeholder root of createCar: CIDv1(dag-pb, sha256 of the empty input)
ProxyRoot == NewCidV1("dag-pb", Sha256(LeafData(<<>>)))

\* faulty variant: the identifier is that of the empty input, whatever is written
LinkOfEmpty(codec, data) == NewCidV1(codec, Sha256(LeafData(<<>>)))

\* the link system computes a block's identifier from the bytes written
LinkOf(codec, data) == NewCidV1(codec, Sha256(data))

\* blocks.NewBlockWithCid(buf.Bytes(), cl.Cid)
NewBlockWithCid(data, c) == [cid |-> c, data |-> data]

\* faulty variant: the byte that follows a full chunk is skipped
RECURSIVE ChunksSkip(_)
ChunksSkip(s) ==
  IF Len(s) <= ChunkSize THEN <<s>>
  ELSE <<SubSeq(s, 1, ChunkSize)>> \o ChunksSkip(SubSeq(s, ChunkSize + 2, Len(s)))

\* the leaf chunks of a stream, in stream order (an empty stream is one empty chunk)
RECURSIVE Chunks(_)
Chunks(s) ==
  IF Len(s) <= ChunkSize THEN <<s>>
  ELSE <<SubSeq(s, 1, ChunkSize)>> \o Chunks(SubSeq(s, ChunkSize + 1, Len(s)))

\* builder.BuildUnixFSFile: the blocks stored, in the order they are stored
DagBlocks(s) ==
  LET ch     == Chunks(s)
      leaves == [i \in 1..Len(ch) |->
                   NewBlockWithCid(LeafData(ch[i]), LinkOf("raw", LeafData(ch[i])))]
      links  == [i \in 1..Len(ch) |-> [cid |-> leaves[i].cid, size |-> Len(ch[i])]]
  IN  IF Len(ch) = 1 THEN leaves
      ELSE Append(leaves, NewBlockWithCid(NodeData(links), LinkOf("dag-pb", NodeData(links))))

\* the root link BuildUnixFSFile returns: the last block stored
DagRoot(s) == DagBlocks(s)[Len(DagBlocks(s))].cid

(* ------------------------- container format ---------------------------- *)
NoFile == [exists |-> FALSE, open |-> FALSE, roots |-> <<>>, blocks |-> <<>>]

\* serialized bytes of a container: header root list, then the blocks
Car(roots, blocks) == [roots |-> roots, blocks |-> blocks]

HeaderLen(roots) == 1 + CidLen * Len(roots)
BlockLen(b) == CidLen + Len(b.data.bytes) + Len(b.data.links)

RECURSIVE BlocksLen(_)
BlocksLen(bs) == IF bs = <<>> THEN 0 ELSE BlockLen(Head(bs)) + BlocksLen(Tail(bs))

CarLen(c) == HeaderLen(c.roots) + BlocksLen(c.blocks)

(* ------------------------------ state ---------------------------------- *)
VARIABLES
  pc,      \* pc[r]: position of request r inside Upload
  stream,  \* stream[r]: the bytes the io.Reader of request r delivers
  dest,    \* dest[r]: the temporary file path of request r
  disk,    \* disk[p]: the file at path p
  loc,     \* loc[r]: local variables of createCar / w3sclient.upload / storeShard
  net,     \* net[r]: invocations and transfers issued by request r, in order
  ret,     \* ret[r]: what Upload returns (result value, error)
  w3s      \* the w3sclient all requests share: space, issuer, proof

vars == <<pc, stream, dest, disk, loc, net, ret, w3s>>

\* newW3sclient, lines 204-208
NewW3sclient == [space |-> "did:space", issuer |-> "did:issuer", proof |-> "proof"]

NoErr == <<>>
ZeroResult == [Root |-> CidUndef, Shard |-> CidUndef]

\* nothing has been written to the http.ResponseWriter
NoResponse == [status |-> 0, body |-> <<>>]

\* the nil *multipart.Part
NilPart == "<nil>"

InitLoc ==
  [ccErr   |-> NoErr,      \* error createCar returns
   root    |-> CidUndef,   \* root returned by createCar
   size    |-> 0,          \* stat.Size()
   sharded |-> FALSE,      \* which branch of "size < sharding.ShardSize" was taken
   decoded |-> <<>>,       \* blocks ucanto_car.Decode read from f
   shds    |-> <<>>,       \* shards the sharder has still to yield
   shd     |-> Car(<<>>, <<>>),  \* the shard shds.Next() returned last
   buf     |-> Car(<<>>, <<>>),  \* bytes read by storeShard
   rcpt    |-> [status |-> "", url |-> "", headers |-> {}],
   shdlnks |-> <<>>,       \* links of the shards stored so far
   werr    |-> NoErr,      \* error w3sclient.upload returns
   fopen   |-> FALSE,      \* whether the handle f is open
   panic   |-> FALSE,      \* a run-time panic is unwinding the stack
   rm      |-> 0,          \* number of calls of removeTmp
   cancelled |-> FALSE,    \* the request-scoped context ctx has been cancelled
   cErr    |-> NoErr,      \* error removeTmp returns
   hreq    |-> "",         \* the HTTP request the handler serves, if any
   part    |-> "",         \* form name of the part NextPart returned, or NilPart
   resp    |-> NoResponse] \* what the handler wrote to the ResponseWriter

\* one request is served; the other never arrives
Init ==
  /\ pc = [r \in Reqs |-> IF r = "r1" THEN "idle" ELSE "off"]
  /\ \E s \in Streams : stream = [r \in Reqs |-> IF r = "r1" THEN s ELSE <<>>]
  /\ dest = [r \in Reqs |-> ""]
  /\ disk = [p \in Paths |-> NoFile]
  /\ loc = [r \in Reqs |-> InitLoc]
  /\ net = [r \in Reqs |-> <<>>]
  /\ ret = [r \in Reqs |-> [result |-> ZeroResult, err |-> NoErr]]
  /\ w3s = NewW3sclient

\* streams of the requests that are served at the same time
ConcStreams == {<<>>, <<0, 0>>}

\* two requests are served at the same time by the same Uploader
InitConc ==
  /\ pc = [r \in Reqs |-> "idle"]
  /\ stream \in [Reqs -> ConcStreams]
  /\ dest = [r \in Reqs |-> ""]
  /\ disk = [p \in Paths |-> NoFile]
  /\ loc = [r \in Reqs |-> InitLoc]
  /\ net = [r \in Reqs |-> <<>>]
  /\ ret = [r \in Reqs |-> [result |-> ZeroResult, err |-> NoErr]]
  /\ w3s = NewW3sclient

(* --------------------------- Uploader.Upload --------------------------- *)
\* faulty variant: the root computed so far is returned with the error
ReturnErrKeepsRoot(r, e) ==
  /\ ret' = [ret EXCEPT ![r] = [result |-> [Root |-> loc[r].root, Shard |-> CidUndef],
                                err |-> e]]
  /\ pc' = [pc EXCEPT ![r] = "defer"]

\* "return UploadResult{}, fmt.Errorf(...)": the deferred removeTmp runs next
ReturnErr(r, e) ==
  /\ ret' = [ret EXCEPT ![r] = [result |-> ZeroResult, err |-> e]]
  /\ pc' = [pc EXCEPT ![r] = "defer"]

\* faulty variant: the removal is registered only after createCar succeeded
CreateCarFailsNoDefer(r, cause) ==
  /\ loc' = [loc EXCEPT ![r].ccErr = <<cause>>]
  /\ ret' = [ret EXCEPT ![r] = [result |-> ZeroResult, err |-> <<"failed generating CAR", cause>>]]
  /\ pc' = [pc EXCEPT ![r] = "returned"]

\* faulty variant: the error of createCar is dropped and the upload goes on
CreateCarFailsGoesOn(r, cause) ==
  /\ loc' = [loc EXCEPT ![r].ccErr = <<cause>>]
  /\ pc' = [pc EXCEPT ![r] = "up_open"]
  /\ UNCHANGED ret

\* lines 78-81: createCar returned err, Upload wraps it
CreateCarFails(r, cause) ==
  /\ loc' = [loc EXCEPT ![r].ccErr = <<cause>>]
  /\ ReturnErr(r, <<"failed generating CAR", cause>>)

\* faulty variant: a predictable file name, the same for every request
UploadStartFixedName(r) ==
  /\ pc[r] = "idle"
  /\ dest' = [dest EXCEPT ![r] = "t1.car"]
  /\ pc' = [pc EXCEPT ![r] = "cc_hash"]
  /\ UNCHANGED <<w3s, stream, disk, loc, net, ret>>

\* lines 67-70: a random file name under tmpDir
UploadStart(r) ==
  /\ pc[r] = "idle"
  /\ \E p \in Paths :
       /\ ~disk[p].exists
       /\ \A q \in Reqs : dest[q] # p
       /\ dest' = [dest EXCEPT ![r] = p]
  /\ pc' = [pc EXCEPT ![r] = "cc_hash"]
  /\ UNCHANGED <<w3s, stream, disk, loc, net, ret>>

(* --------------------------- Uploader.createCar ------------------------ *)
\* lines 95-104: the placeholder root
CreateCarProxyRoot(r) ==
  /\ pc[r] = "cc_hash"
  /\ \E ok \in BOOLEAN :
       IF ok THEN /\ pc' = [pc EXCEPT ![r] = "cc_open"]
                  /\ UNCHANGED <<ret, loc>>
             ELSE CreateCarFails(r, "hasher")
  /\ UNCHANGED <<w3s, stream, dest, disk, net>>

\* lines 106-111: blockstore.OpenReadWrite(dest, {proxyRoot}, WriteAsCarV1)
OpenReadWrite(r) ==
  /\ pc[r] = "cc_open"
  /\ \E out \in {"ok", "errNoFile", "errFile"} :
       CASE out = "ok" ->
              /\ disk' = [disk EXCEPT ![dest[r]] =
                   [exists |-> TRUE, open |-> TRUE, roots |-> <<ProxyRoot>>, blocks |-> <<>>]]
              /\ pc' = [pc EXCEPT ![r] = "cc_write"]
              /\ UNCHANGED <<ret, loc>>
         [] out = "errNoFile" ->
              /\ UNCHANGED disk
              /\ CreateCarFails(r, "open")
         [] out = "errFile" ->
              \* the file was created but the header could not be written
              /\ disk' = [disk EXCEPT ![dest[r]] =
                   [exists |-> TRUE, open |-> FALSE, roots |-> <<>>, blocks |-> <<>>]]
              /\ CreateCarFails(r, "open")
  /\ UNCHANGED <<w3s, stream, dest, net>>

\* lines 114-117 and writeFile: one step of BuildUnixFSFile, which reads the
\* stream and stores the next block through the write callback (bs.Put)
WriteBlock(r) ==
  /\ pc[r] = "cc_write"
  /\ LET plan == DagBlocks(stream[r])
         n    == Len(disk[dest[r]].blocks)
     IN  /\ n < Len(plan)
         /\ \E out \in {"ok", "readErr", "putErr"} :
              CASE out = "ok" ->
                     /\ disk' = [disk EXCEPT ![dest[r]].blocks = Append(@, plan[n + 1])]
                     /\ UNCHANGED <<pc, ret, loc>>
                [] out = "readErr" ->
                     /\ UNCHANGED disk
                     /\ CreateCarFails(r, "read")
                [] out = "putErr" ->
                     /\ UNCHANGED disk
                     /\ CreateCarFails(r, "put")
  /\ UNCHANGED <<w3s, stream, dest, net>>

\* faulty variant: the header is rewritten without closing the container first
WriteFileDoneNoFinalize(r) ==
  /\ pc[r] = "cc_write"
  /\ Len(disk[dest[r]].blocks) = Len(DagBlocks(stream[r]))
  /\ loc' = [loc EXCEPT ![r].root = DagRoot(stream[r])]
  /\ pc' = [pc EXCEPT ![r] = "cc_replace"]
  /\ UNCHANGED <<w3s, stream, dest, disk, net, ret>>

\* lines 169-178: BuildUnixFSFile returns the root link
WriteFileDone(r) ==
  /\ pc[r] = "cc_write"
  /\ Len(disk[dest[r]].blocks) = Len(DagBlocks(stream[r]))
  /\ loc' = [loc EXCEPT ![r].root = DagRoot(stream[r])]
  /\ pc' = [pc EXCEPT ![r] = "cc_finalize"]
  /\ UNCHANGED <<w3s, stream, dest, disk, net, ret>>

\* lines 119-121: cdest.Finalize() closes the container for writing
Finalize(r) ==
  /\ pc[r] = "cc_finalize"
  /\ \E ok \in BOOLEAN :
       IF ok THEN /\ disk' = [disk EXCEPT ![dest[r]].open = FALSE]
                  /\ pc' = [pc EXCEPT ![r] = "cc_replace"]
                  /\ UNCHANGED <<ret, loc>>
             ELSE /\ UNCHANGED disk
                  /\ CreateCarFails(r, "finalize")
  /\ UNCHANGED <<w3s, stream, dest, net>>

\* faulty variant: the new roots are added after the roots in the header
ReplaceRootsInFileAppend(f, roots) == [f EXCEPT !.roots = @ \o roots]

\* car.ReplaceRootsInFile(dest, roots): rewrites the root list of the header
ReplaceRootsInFile(f, roots) == [f EXCEPT !.roots = roots]

\* car.ReplaceRootsInFile refuses roots whose serialized size is not that of
\* the roots in the file
SameHeaderSize(f, roots) == HeaderLen(roots) = HeaderLen(f.roots)

\* lines 122-127
ReplaceRoots(r) ==
  /\ pc[r] = "cc_replace"
  /\ \E ok \in BOOLEAN :
       IF ok /\ SameHeaderSize(disk[dest[r]], <<loc[r].root>>)
             THEN /\ disk' = [disk EXCEPT ![dest[r]] = ReplaceRootsInFile(@, <<loc[r].root>>)]
                  /\ pc' = [pc EXCEPT ![r] = "up_open"]
                  /\ UNCHANGED <<ret, loc>>
             ELSE /\ UNCHANGED disk
                  /\ CreateCarFails(r, "replaceRoots")
  /\ UNCHANGED <<w3s, stream, dest, net>>

(* ----------------------------- the sharder ----------------------------- *)
\* faulty variant: the block that does not fit any more is lost when the
\* current shard is sealed
RECURSIVE ShardFromDrop(_, _, _)
ShardFromDrop(blocks, cur, limit) ==
  IF blocks = <<>>
    THEN IF cur = <<>> THEN <<>> ELSE <<Car(<<>>, cur)>>
    ELSE IF cur # <<>> /\ CarLen(Car(<<>>, cur)) + BlockLen(Head(blocks)) > limit
           THEN <<Car(<<>>, cur)>> \o ShardFromDrop(Tail(blocks), <<>>, limit)
           ELSE ShardFromDrop(Tail(blocks), Append(cur, Head(blocks)), limit)

\* sharding.NewSharder(roots = {}, blocks): consecutive blocks are gathered in
\* the current shard until the next block would make it exceed the limit; a
\* block that alone exceeds the limit is a shard on its own
RECURSIVE ShardFrom(_, _, _)
ShardFrom(blocks, cur, limit) ==
  IF blocks = <<>>
    THEN IF cur = <<>> THEN <<>> ELSE <<Car(<<>>, cur)>>
    ELSE IF cur # <<>> /\ CarLen(Car(<<>>, cur)) + BlockLen(Head(blocks)) > limit
           THEN <<Car(<<>>, cur)>> \o ShardFrom(Tail(blocks), <<Head(blocks)>>, limit)
           ELSE ShardFrom(Tail(blocks), Append(cur, Head(blocks)), limit)

NewSharder(blocks) == ShardFrom(blocks, <<>>, ShardSize)

(* ------------------------- the remote service -------------------------- *)
\* target URLs a store/add receipt can carry: none (nil), one that
\* http.NewRequest rejects, or a well-formed one
NilUrl == "<nil>"
BadUrl == "%zz"
GoodUrls == {"https://a", "https://b"}
Urls == {NilUrl, BadUrl} \cup GoodUrls

\* header sets a store/add receipt can carry: sets of <<name, value>>
HeaderSets ==
  { {<<"content-length", "99">>, <<"x-amz-checksum-sha256", "c">>},
    {<<"Content-Length", "99">>} }

\* what a store/add receipt can say on success
OkReceipts ==
  {[status |-> "done", url |-> u, headers |-> {}] : u \in {NilUrl, "https://a"}} \cup
  {[status |-> "upload", url |-> u, headers |-> h] : u \in {NilUrl, BadUrl}, h \in HeaderSets} \cup
  {[status |-> "upload", url |-> "https://a",
    headers |-> {<<"content-length", "99">>, <<"x-amz-checksum-sha256", "c">>}],
   [status |-> "upload", url |-> "https://b", headers |-> {<<"Content-Length", "99">>}]}

(* --------------------------- w3sclient.upload -------------------------- *)
\* faulty variant: the failed step is tried again
UploadFailsRetry(r, cause) ==
  /\ UNCHANGED loc
  /\ UNCHANGED pc

\* a return with an error from inside w3sclient.upload, once f is open:
\* the deferred f.Close() runs next
UploadFails(r, cause) ==
  /\ loc' = [loc EXCEPT ![r].werr = cause]
  /\ pc' = [pc EXCEPT ![r] = "up_close"]

\* faulty variant: the file is removed as soon as the client has opened it
UpOpenUnlinks(r) ==
  /\ pc[r] = "up_open"
  /\ disk[dest[r]].exists
  /\ disk' = [disk EXCEPT ![dest[r]] = NoFile]
  /\ loc' = [loc EXCEPT ![r].fopen = TRUE]
  /\ pc' = [pc EXCEPT ![r] = "up_stat"]
  /\ UNCHANGED <<w3s, stream, dest, net, ret>>

\* lines 214-217: os.Open(dest)
UpOpen(r) ==
  /\ pc[r] = "up_open"
  /\ \E ok \in BOOLEAN :
       IF ok /\ disk[dest[r]].exists
         THEN /\ loc' = [loc EXCEPT ![r].fopen = TRUE]
              /\ pc' = [pc EXCEPT ![r] = "up_stat"]
         ELSE /\ loc' = [loc EXCEPT ![r].werr = <<"open">>]
              /\ pc' = [pc EXCEPT ![r] = "up_ret"]
  /\ UNCHANGED <<w3s, stream, dest, disk, net, ret>>

\* lines 225-233: f.Stat() and the choice of the branch
UpStat(r) ==
  /\ pc[r] = "up_stat"
  /\ \E ok \in BOOLEAN :
       IF ok
         THEN LET size == CarLen(Car(disk[dest[r]].roots, disk[dest[r]].blocks))
              IN  /\ loc' = [loc EXCEPT ![r].size = size,
                                        ![r].sharded = ~(size < ShardSize)]
                  /\ pc' = [pc EXCEPT ![r] =
                              IF size < ShardSize THEN "ss_read" ELSE "up_decode"]
         ELSE UploadFails(r, <<"stat">>)
  /\ UNCHANGED <<w3s, stream, dest, disk, net, ret>>

\* lines 240-243: ucanto_car.Decode(f)
UpDecode(r) ==
  /\ pc[r] = "up_decode"
  /\ \E ok \in BOOLEAN :
       IF ok THEN /\ loc' = [loc EXCEPT ![r].decoded = disk[dest[r]].blocks]
                  /\ pc' = [pc EXCEPT ![r] = "up_sharder"]
             ELSE UploadFails(r, <<"decoding CAR">>)
  /\ UNCHANGED <<w3s, stream, dest, disk, net, ret>>

\* lines 244-247: sharding.NewSharder({}, blocks)
UpNewSharder(r) ==
  /\ pc[r] = "up_sharder"
  /\ \E ok \in BOOLEAN :
       IF ok THEN /\ loc' = [loc EXCEPT ![r].shds = NewSharder(loc[r].decoded)]
                  /\ pc' = [pc EXCEPT ![r] = "up_next"]
             ELSE UploadFails(r, <<"sharding CAR">>)
  /\ UNCHANGED <<w3s, stream, dest, disk, net, ret>>

\* faulty variant: the sharder reports the end before it yields a shard
UpNextEof(r) ==
  /\ pc[r] = "up_next"
  /\ pc' = [pc EXCEPT ![r] = "up_uploadadd"]
  /\ UNCHANGED <<w3s, stream, dest, disk, net, ret, loc>>

\* lines 249-256: shds.Next()
UpNext(r) ==
  /\ pc[r] = "up_next"
  /\ \E ok \in BOOLEAN :
       IF ~ok THEN UploadFails(r, <<"next">>)
       ELSE IF loc[r].shds = <<>>
         THEN \* io.EOF: break
              /\ pc' = [pc EXCEPT ![r] = "up_uploadadd"]
              /\ UNCHANGED loc
         ELSE /\ loc' = [loc EXCEPT ![r].shd = Head(loc[r].shds),
                                    ![r].shds = Tail(loc[r].shds)]
              /\ pc' = [pc EXCEPT ![r] = "ss_read"]
  /\ UNCHANGED <<w3s, stream, dest, disk, net, ret>>

(* ------------------------------ storeShard ----------------------------- *)
\* line 297: the shard's link is the hash of the bytes read
ShardLink(buf) == NewCidV1("car", Sha256(buf))

\* faulty variant: the loop over the shards is left after the first shard
AfterStoreShardBreak(r) == "up_uploadadd"

\* lines 238 and 261: shdlnks = append(shdlnks, link), then what follows the call
AfterStoreShard(r) == IF loc[r].sharded THEN "up_next" ELSE "up_uploadadd"

\* faulty variant: the name of the temporary file gets into the bytes read
SSReadNamed(r) ==
  /\ pc[r] = "ss_read"
  /\ loc' = [loc EXCEPT ![r].buf =
         Car(<<[codec |-> dest[r], mh |-> <<>>]>>,
             IF loc[r].sharded THEN loc[r].shd.blocks ELSE disk[dest[r]].blocks)]
  /\ pc' = [pc EXCEPT ![r] = "ss_storeadd"]
  /\ UNCHANGED <<w3s, stream, dest, disk, net, ret>>

\* lines 286-290: buf.ReadFrom(shard); the shard is f itself on the unsharded path
SSRead(r) ==
  /\ pc[r] = "ss_read"
  /\ \E ok \in BOOLEAN :
       IF ok
         THEN /\ loc' = [loc EXCEPT ![r].buf =
                   IF loc[r].sharded THEN loc[r].shd
                   ELSE Car(disk[dest[r]].roots, disk[dest[r]].blocks)]
              /\ pc' = [pc EXCEPT ![r] = "ss_storeadd"]
         ELSE UploadFails(r, <<"reading CAR">>)
  /\ UNCHANGED <<w3s, stream, dest, disk, net, ret>>

\* faulty variant: a transfer is made whenever the receipt carries a URL
NeedsTransferIfUrl(rcpt) == rcpt.url # NilUrl

\* line 317: the receipt asks for a direct transfer
NeedsTransfer(rcpt) == rcpt.status = "upload"

\* the store/add invocation of lines 299-308
StoreAddInv(buf, out, rcpt) ==
  [type |-> "store/add", link |-> ShardLink(buf), size |-> CarLen(buf),
   issuer |-> w3s.issuer, space |-> w3s.space, proof |-> w3s.proof,
   out |-> out, rcpt |-> rcpt]

\* lines 292-317: hash, store/add, and the receipt
SSStoreAdd(r) ==
  /\ pc[r] = "ss_storeadd"
  /\ \/ \* multihash.Sum fails: nothing is sent
        /\ UploadFails(r, <<"hashing CAR">>)
        /\ UNCHANGED net
     \/ \* client.StoreAdd returns an error
        /\ net' = [net EXCEPT ![r] = Append(@, StoreAddInv(loc[r].buf, "err", InitLoc.rcpt))]
        /\ UploadFails(r, <<"store/add">>)
     \/ \* the receipt carries an error payload
        /\ net' = [net EXCEPT ![r] = Append(@, StoreAddInv(loc[r].buf, "rcptErr", InitLoc.rcpt))]
        /\ UploadFails(r, <<"receipt">>)
     \/ \E rc \in OkReceipts :
          /\ net' = [net EXCEPT ![r] = Append(@, StoreAddInv(loc[r].buf, "ok", rc))]
          /\ IF NeedsTransfer(rc)
               THEN /\ loc' = [loc EXCEPT ![r].rcpt = rc]
                    /\ pc' = [pc EXCEPT ![r] = "ss_put"]
               ELSE /\ loc' = [loc EXCEPT ![r].shdlnks = Append(@, ShardLink(loc[r].buf))]
                    /\ pc' = [pc EXCEPT ![r] = AfterStoreShard(r)]
  /\ UNCHANGED <<w3s, stream, dest, disk, ret>>

\* lines 323-329: every header of the receipt but "content-length"
RequestHeaders(headers) == {kv \in headers : kv[1] # "content-length"}

\* faulty variant: the transfer goes to a fixed URL
PutRequestFixedUrl(rcpt, buf, res) ==
  [type |-> "PUT", url |-> "https://a", body |-> buf,
   hdr |-> RequestHeaders(rcpt.headers), clen |-> CarLen(buf), res |-> res]

\* the direct transfer of lines 318-334
PutRequest(rcpt, buf, res) ==
  [type |-> "PUT", url |-> rcpt.url, body |-> buf,
   hdr |-> RequestHeaders(rcpt.headers), clen |-> CarLen(buf), res |-> res]

\* faulty variant: the status code of the response is not looked at
TransferOkAnyStatus(res) == res \in {"ok", "non200"}

\* lines 334-344: the transfer succeeded
TransferOk(res) == res = "ok"

\* lines 317-347: the direct transfer
SSPut(r) ==
  /\ pc[r] = "ss_put"
  /\ CASE loc[r].rcpt.url = NilUrl ->
            \* *rcpt.Out().Ok().Url dereferences nil: run-time panic
            /\ loc' = [loc EXCEPT ![r].panic = TRUE]
            /\ pc' = [pc EXCEPT ![r] = "up_close"]
            /\ UNCHANGED net
       [] loc[r].rcpt.url = BadUrl ->
            \* http.NewRequest fails: nothing is sent
            /\ UploadFails(r, <<"creating HTTP request">>)
            /\ UNCHANGED net
       [] OTHER ->
            \E res \in {"doErr", "non200", "closeErr", "ok"} :
              /\ net' = [net EXCEPT ![r] = Append(@, PutRequest(loc[r].rcpt, loc[r].buf, res))]
              /\ IF TransferOk(res)
                   THEN /\ loc' = [loc EXCEPT ![r].shdlnks = Append(@, ShardLink(loc[r].buf))]
                        /\ pc' = [pc EXCEPT ![r] = AfterStoreShard(r)]
                   ELSE UploadFails(r, <<res>>)
  /\ UNCHANGED <<w3s, stream, dest, disk, ret>>

(* ------------------------------ upload/add ----------------------------- *)
\* the upload/add invocation of lines 265-271
UploadAddInv(root, shards, out) ==
  [type |-> "upload/add", root |-> root, shards |-> shards,
   issuer |-> w3s.issuer, space |-> w3s.space, proof |-> w3s.proof, out |-> out]

\* lines 265-280
UploadAdd(r) ==
  /\ pc[r] = "up_uploadadd"
  /\ \E out \in {"err", "rcptErr", "ok"} :
       /\ net' = [net EXCEPT ![r] = Append(@, UploadAddInv(loc[r].root, loc[r].shdlnks, out))]
       /\ loc' = [loc EXCEPT ![r].werr = IF out = "ok" THEN NoErr ELSE <<"upload/add", out>>]
       /\ pc' = [pc EXCEPT ![r] = "up_close"]
  /\ UNCHANGED <<w3s, stream, dest, disk, ret>>

\* lines 218-223: the deferred f.Close() sets the error when there is none
UpClose(r) ==
  /\ pc[r] = "up_close"
  /\ \E ok \in BOOLEAN :
       loc' = [loc EXCEPT ![r].fopen = FALSE,
                          ![r].werr = IF ~ok /\ loc[r].werr = NoErr THEN <<"close">> ELSE @]
  /\ pc' = [pc EXCEPT ![r] = IF loc[r].panic THEN "defer" ELSE "up_ret"]
  /\ UNCHANGED <<w3s, stream, dest, disk, net, ret>>

(* ----------------------- Uploader.Upload, the end ---------------------- *)
\* Link.String(): the multibase text of an identifier; cid.Undef has none
CidString(c) == IF c = CidUndef THEN <<>> ELSE <<"base32", c.codec, c.mh>>

\* cid.Parse: the identifier a multibase text stands for
CidParse(str) == [codec |-> str[2], mh |-> str[3]]

\* cid.MustParse panics on a text that is no identifier
MustParsePanics(str) == ~(Len(str) = 3 /\ str[1] = "base32")

\* faulty variant: the last shard is returned instead of the first
SuccessResultLast(root, shards) ==
  [Root |-> root, Shard |-> CidParse(CidString(shards[Len(shards)]))]

\* faulty variant: the placeholder root is returned, and the first shard
SuccessResultProxy(root, shards) ==
  [Root |-> ProxyRoot, Shard |-> CidParse(CidString(shards[1]))]

\* lines 88-91: the result of a successful Upload
SuccessResult(root, shards) == [Root |-> root, Shard |-> CidParse(CidString(shards[1]))]

\* lines 83-91: what Upload makes of the result of w3s.upload
UploadReturn(r) ==
  /\ pc[r] = "up_ret"
  /\ IF loc[r].werr # NoErr
       THEN /\ ReturnErr(r, <<"failed archiving CAR">> \o loc[r].werr)
            /\ UNCHANGED loc
       ELSE IF loc[r].shdlnks = <<>> \/ MustParsePanics(CidString(loc[r].shdlnks[1]))
         THEN \* shards[0] on an empty list, or MustParse: run-time panic
              /\ loc' = [loc EXCEPT ![r].panic = TRUE]
              /\ pc' = [pc EXCEPT ![r] = "defer"]
              /\ UNCHANGED ret
         ELSE /\ ret' = [ret EXCEPT ![r] =
                   [result |-> SuccessResult(loc[r].root, loc[r].shdlnks), err |-> NoErr]]
              /\ pc' = [pc EXCEPT ![r] = "defer"]
              /\ UNCHANGED loc
  /\ UNCHANGED <<w3s, stream, dest, disk, net>>

\* faulty variant: the removal error replaces the error Upload already has
DeferredErrOverride(err, cErr) == IF cErr # NoErr THEN cErr ELSE err

\* faulty variant: the removal error is dropped
DeferredErrDrop(err, cErr) == err

\* lines 73-75: the deferred function keeps an error Upload already has
DeferredErr(err, cErr) == IF err = NoErr THEN cErr ELSE err

\* lines 72-76 and removeTmp: the deferred removal of the temporary file;
\* os.Remove fails on a file that is not there and can fail on one that is
RemoveTmp(r) ==
  /\ pc[r] = "defer"
  /\ \E ok \in BOOLEAN :
       LET removed == ok /\ disk[dest[r]].exists
           cErr    == IF removed THEN NoErr ELSE <<"failed to remove file">>
       IN  /\ disk' = [disk EXCEPT ![dest[r]] = IF removed THEN NoFile ELSE @]
           /\ ret' = [ret EXCEPT ![r].err = DeferredErr(@, cErr)]
           /\ loc' = [loc EXCEPT ![r].rm = @ + 1, ![r].cErr = cErr]
  /\ pc' = [pc EXCEPT ![r] = IF loc[r].panic THEN "panicked" ELSE "returned"]
  /\ UNCHANGED <<w3s, stream, dest, net>>

(* --------------------------- specification ----------------------------- *)
Next ==
  \E r \in Reqs :
    \/ UploadStart(r)
    \/ CreateCarProxyRoot(r)
    \/ OpenReadWrite(r)
    \/ WriteBlock(r)
    \/ WriteFileDone(r)
    \/ Finalize(r)
    \/ ReplaceRoots(r)
    \/ UpOpen(r)
    \/ UpStat(r)
    \/ UpDecode(r)
    \/ UpNewSharder(r)
    \/ UpNext(r)
    \/ SSRead(r)
    \/ SSStoreAdd(r)
    \/ SSPut(r)
    \/ UploadAdd(r)
    \/ UpClose(r)
    \/ UploadReturn(r)
    \/ RemoveTmp(r)

Spec == Init /\ [][Next]_vars

\* the same steps, two requests interleaved
SpecConc == InitConc /\ [][Next]_vars

\* the request-scoped context (r.Context() of the HTTP handler) is cancelled
\* while Upload runs; Upload hands ctx to createCar only (line 78): no
\* statement of Upload, w3sclient.upload or storeShard consults it
Cancel(r) ==
  /\ pc[r] \notin {"off", "idle", "returned", "panicked"}
  /\ ~loc[r].cancelled
  /\ loc' = [loc EXCEPT ![r].cancelled = TRUE]
  /\ UNCHANGED <<w3s, stream, dest, disk, net, ret, pc>>

NextCancel == Next \/ \E r \in Reqs : Cancel(r)

\* one request whose context may be cancelled at any point
SpecCancel == Init /\ [][NextCancel]_vars

\* extract of the uploader test: the raw data of the block that the first
\* root of the header names
extract(f) ==
  LET i == CHOOSE i \in 1..Len(f.blocks) : f.blocks[i].cid = f.roots[1]
  IN  f.blocks[i].data.bytes

(* ------------------------- Handlers.Upload ----------------------------- *)
\* the requests POST /api/v1/upload can get: no multipart body, a multipart
\* body without parts, one whose first part cannot be read, one whose first
\* part has another form name, and one whose first part is named "file"
ReqKinds == {"notMultipart", "noParts", "partErr", "other", "file"}

\* http.Error(rw, msg, code)
HttpError(msg, code) == [status |-> code, body |-> <<msg>>]

\* lines 58-69: the JSON body of a successful upload
UploadResponse(result) ==
  [status |-> 200,
   body |-> <<[root |-> CidString(result.Root), shard |-> CidString(result.Shard)]>>]

\* lines 32-36: r.MultipartReader()
HandlerMultipartReader(r) ==
  /\ pc[r] = "h_start"
  /\ IF loc[r].hreq = "notMultipart"
       THEN /\ loc' = [loc EXCEPT ![r].resp = HttpError("err.Error()", 400)]
            /\ pc' = [pc EXCEPT ![r] = "h_done"]
       ELSE /\ pc' = [pc EXCEPT ![r] = "h_nextpart"]
            /\ UNCHANGED loc
  /\ UNCHANGED <<w3s, stream, dest, disk, net, ret>>

\* lines 39-43: reader.NextPart(); io.EOF (no part, p is nil) is let through
HandlerNextPart(r) ==
  /\ pc[r] = "h_nextpart"
  /\ CASE loc[r].hreq = "partErr" ->
            /\ loc' = [loc EXCEPT ![r].resp = HttpError("err.Error()", 500)]
            /\ pc' = [pc EXCEPT ![r] = "h_done"]
       [] loc[r].hreq = "noParts" ->
            /\ loc' = [loc EXCEPT ![r].part = NilPart]
            /\ pc' = [pc EXCEPT ![r] = "h_formname"]
       [] OTHER ->
            /\ loc' = [loc EXCEPT ![r].part = loc[r].hreq]
            /\ pc' = [pc EXCEPT ![r] = "h_formname"]
  /\ UNCHANGED <<w3s, stream, dest, disk, net, ret>>

\* lines 45-51: p.FormName() dereferences p; then Upload is called
HandlerFormName(r) ==
  /\ pc[r] = "h_formname"
  /\ CASE loc[r].part = NilPart ->
            \* nil pointer dereference: run-time panic, nothing is written
            /\ pc' = [pc EXCEPT ![r] = "h_panicked"]
            /\ UNCHANGED loc
       [] loc[r].part # NilPart /\ loc[r].part # "file" ->
            /\ loc' = [loc EXCEPT ![r].resp = HttpError("file is expected", 400)]
            /\ pc' = [pc EXCEPT ![r] = "h_done"]
       [] OTHER ->
            /\ pc' = [pc EXCEPT ![r] = "idle"]
            /\ UNCHANGED loc
  /\ UNCHANGED <<w3s, stream, dest, disk, net, ret>>

\* lines 52-69: Upload has returned; json.Marshal of two strings cannot fail
HandlerRespond(r) ==
  /\ pc[r] = "returned"
  /\ loc[r].hreq = "file"
  /\ loc' = [loc EXCEPT ![r].resp =
         IF ret[r].err # NoErr THEN [status |-> 500, body |-> <<>>]
         ELSE UploadResponse(ret[r].result)]
  /\ pc' = [pc EXCEPT ![r] = "h_done"]
  /\ UNCHANGED <<w3s, stream, dest, disk, net, ret>>

\* line 51: a panic inside Upload unwinds through the handler, which has
\* no recover: nothing is written
HandlerPanics(r) ==
  /\ pc[r] = "panicked"
  /\ loc[r].hreq = "file"
  /\ pc' = [pc EXCEPT ![r] = "h_panicked"]
  /\ UNCHANGED <<w3s, stream, dest, disk, net, ret, loc>>

\* one HTTP request arrives at the handler
InitHandler ==
  /\ pc = [r \in Reqs |-> IF r = "r1" THEN "h_start" ELSE "off"]
  /\ \E s \in Streams : stream = [r \in Reqs |-> IF r = "r1" THEN s ELSE <<>>]
  /\ dest = [r \in Reqs |-> ""]
  /\ disk = [p \in Paths |-> NoFile]
  /\ \E k \in ReqKinds :
       loc = [r \in Reqs |-> IF r = "r1" THEN [InitLoc EXCEPT !.hreq = k] ELSE InitLoc]
  /\ net = [r \in Reqs |-> <<>>]
  /\ ret = [r \in Reqs |-> [result |-> ZeroResult, err |-> NoErr]]
  /\ w3s = NewW3sclient

NextHandler ==
  \/ Next
  \/ \E r \in Reqs :
       \/ HandlerMultipartReader(r)
       \/ HandlerNextPart(r)
       \/ HandlerFormName(r)
       \/ HandlerRespond(r)
       \/ HandlerPanics(r)

SpecHandler == InitHandler /\ [][NextHandler]_vars

(* ======================= properties of the pipeline ==================== *)
Returned(r) == pc[r] = "returned"

\* createCar and w3sclient.upload both returned without error
BothSucceeded(r) ==
  /\ pc[r] \in {"defer", "returned"}
  /\ ~loc[r].panic
  /\ loc[r].ccErr = NoErr
  /\ loc[r].werr = NoErr

\* the finalized container of a stream, and the shards it is stored as
FinalCar(s) == Car(<<DagRoot(s)>>, DagBlocks(s))

ExpectedShards(s) ==
  IF CarLen(FinalCar(s)) < ShardSize THEN <<FinalCar(s)>> ELSE NewSharder(DagBlocks(s))

CarLink(c) == [codec |-> "car", mh |-> <<"sha2-256", c>>]

IsStoreAdd(e) == e.type = "store/add"
IsPut(e) == e.type = "PUT"
IsUploadAdd(e) == e.type = "upload/add"

\* the store/add events of a log, in order
RECURSIVE StoreAdds(_)
StoreAdds(log) ==
  IF log = <<>> THEN <<>>
  ELSE LET n == Len(log)
       IN  IF IsStoreAdd(log[n]) THEN Append(StoreAdds(SubSeq(log, 1, n - 1)), log[n])
           ELSE StoreAdds(SubSeq(log, 1, n - 1))

\* the shard of the store/add at position i has reached Done or Registered
TerminalAt(log, i) ==
  /\ IsStoreAdd(log[i])
  /\ log[i].out = "ok"
  /\ \/ log[i].rcpt.status # "upload"
     \/ /\ i < Len(log)
        /\ IsPut(log[i + 1])
        /\ log[i + 1].res = "ok"

\* the links of the shards that have reached a terminal success state, in order
TerminalLinks(log) ==
  LET RECURSIVE Upto(_)
      Upto(i) == IF i = 0 THEN <<>>
                 ELSE IF TerminalAt(log, i) THEN Append(Upto(i - 1), log[i].link)
                 ELSE Upto(i - 1)
  IN  Upto(Len(log))

(* ------------------------------- C1 ------------------------------------ *)
\* C1 (as claimed): after Upload returns, on every exit path, the temporary
\* file of the request no longer exists on disk.
C1_NoTmpFileAfterReturn ==
  \A r \in Reqs : Returned(r) => ~disk[dest[r]].exists

\* C1 (amended): after Upload returns, on every exit path, removeTmp has been
\* called exactly once on the temporary file; the file no longer exists unless
\* that removal failed, and then Upload returns an error.
C1_TmpFileRemovedUnlessRemoveFails ==
  \A r \in Reqs :
    Returned(r) =>
      /\ loc[r].rm = 1
      /\ loc[r].cErr = NoErr => ~disk[dest[r]].exists
      /\ disk[dest[r]].exists => ret[r].err # NoErr

\* Upload returned after a block write failed: the file it had created is gone
C1_Witness ==
  \E r \in Reqs :
    /\ Returned(r)
    /\ loc[r].ccErr = <<"put">>
    /\ loc[r].cErr = NoErr
    /\ ~disk[dest[r]].exists

(* ------------------------------- C2 ------------------------------------ *)
\* C2: upload/add is sent only after every shard of the container has reached
\* Done or Registered; it is sent exactly once per successful upload; it
\* carries the root and the links of all shards in the order they were
\* produced and registered.
C2_UploadAddAfterAllShards ==
  \A r \in Reqs :
    LET log == net[r]
        sh  == ExpectedShards(stream[r])
    IN  /\ \A i \in 1..Len(log) :
             IsUploadAdd(log[i]) =>
               LET pre == SubSeq(log, 1, i - 1)
               IN  /\ \A j \in 1..Len(log) : IsUploadAdd(log[j]) => j = i
                   /\ Len(StoreAdds(pre)) = Len(sh)
                   /\ \A k \in 1..Len(sh) : StoreAdds(pre)[k].link = CarLink(sh[k])
                   /\ \A j \in 1..Len(pre) : IsStoreAdd(pre[j]) => TerminalAt(pre, j)
                   /\ log[i].root = DagRoot(stream[r])
                   /\ log[i].shards = [k \in 1..Len(sh) |-> CarLink(sh[k])]
                   /\ log[i].shards = TerminalLinks(pre)
        /\ (pc[r] = "up_ret" /\ loc[r].werr = NoErr) \/ (Returned(r) /\ ret[r].err = NoErr)
             => /\ Len(log) > 0
                /\ IsUploadAdd(log[Len(log)])
                /\ log[Len(log)].out = "ok"

\* upload/add was sent for a container of several shards, one of them transferred
C2_Witness ==
  \E r \in Reqs :
    /\ Len(net[r]) > 0
    /\ IsUploadAdd(net[r][Len(net[r])])
    /\ Len(net[r][Len(net[r])].shards) >= 2
    /\ \E i \in 1..Len(net[r]) : IsPut(net[r][i])
    /\ Returned(r) /\ ret[r].err = NoErr

(* ------------------------------- C3 ------------------------------------ *)
\* C3: a shard whose store/add receipt reports the content as already stored
\* (a success status other than "upload") becomes Done at once and no direct
\* transfer is issued for it; if every shard is answered so, there is no
\* direct transfer at all.
C3_NoTransferWhenAlreadyStored ==
  \A r \in Reqs :
    LET log == net[r]
    IN  /\ \A i \in 1..Len(log) :
             (IsStoreAdd(log[i]) /\ log[i].out = "ok" /\ log[i].rcpt.status # "upload") =>
               /\ i < Len(log) => ~IsPut(log[i + 1])
               /\ pc[r] # "ss_put" \/ i < Len(log)
               /\ Len(StoreAdds(SubSeq(log, 1, i))) <= Len(loc[r].shdlnks)
               /\ loc[r].shdlnks[Len(StoreAdds(SubSeq(log, 1, i)))] = log[i].link
        /\ (\A i \in 1..Len(log) : IsStoreAdd(log[i]) => log[i].rcpt.status # "upload")
             => (\A i \in 1..Len(log) : ~IsPut(log[i])) /\ pc[r] # "ss_put"

\* Upload succeeded for several shards, all already stored (one receipt even
\* carried a URL), and nothing was transferred
C3_Witness ==
  \E r \in Reqs :
    /\ Returned(r) /\ ret[r].err = NoErr
    /\ Len(StoreAdds(net[r])) >= 2
    /\ \A i \in 1..Len(net[r]) : IsStoreAdd(net[r][i]) => net[r][i].rcpt.status = "done"
    /\ \E i \in 1..Len(net[r]) : IsStoreAdd(net[r][i]) /\ net[r][i].rcpt.url # NilUrl

(* ------------------------------- C4 ------------------------------------ *)
\* the store/add at position i of the log was answered "upload" with a target
\* URL the transfer request can be built for
AsksTransferAt(log, i) ==
  /\ IsStoreAdd(log[i])
  /\ log[i].out = "ok"
  /\ log[i].rcpt.status = "upload"
  /\ log[i].rcpt.url \in GoodUrls

ShardFailedAt(log, i) ==
  \/ IsStoreAdd(log[i]) /\ log[i].out \in {"err", "rcptErr"}
  \/ IsPut(log[i]) /\ log[i].res # "ok"

\* C5: when store/add fails, its receipt carries an error, or the direct
\* transfer fails or answers a non-success status, the upload stops at that
\* shard: no later store/add, no upload/add, and Upload returns an error; an
\* error payload in the upload/add receipt also makes Upload return an error.
C5_FailureStopsTheUpload ==
  \A r \in Reqs :
    LET log == net[r]
    IN  /\ \A i \in 1..Len(log) :
             ShardFailedAt(log, i) =>
               /\ i = Len(log)
               /\ pc[r] \in {"up_close", "up_ret", "defer", "returned"}
               /\ loc[r].werr # NoErr
               /\ Returned(r) => ret[r].err # NoErr
        /\ \A i \in 1..Len(log) :
             (IsUploadAdd(log[i]) /\ log[i].out # "ok") =>
               /\ i = Len(log)
               /\ loc[r].werr # NoErr
               /\ Returned(r) => ret[r].err # NoErr

\* Upload returned an error after the transfer of the second of three shards
\* was answered with a non-success status
C5_Witness ==
  \E r \in Reqs :
    /\ Returned(r) /\ ret[r].err # NoErr
    /\ Len(StoreAdds(net[r])) = 2
    /\ Len(ExpectedShards(stream[r])) = 3
    /\ IsPut(net[r][Len(net[r])])
    /\ net[r][Len(net[r])].res = "non200"

(* ------------------------------- C6 ------------------------------------ *)
\* C6: nothing is retried: within one Upload each shard is the subject of at
\* most one store/add and at most one direct transfer, and at most one
\* upload/add is sent, whatever the remote service or the transfer answers.
C6_NoRetry ==
  \A r \in Reqs :
    LET log == net[r]
        sh  == ExpectedShards(stream[r])
        sa  == StoreAdds(log)
    IN  /\ Len(sa) <= Len(sh)
        /\ \A k \in 1..Len(sa) : sa[k].link = CarLink(sh[k])
        /\ \A i \in 1..Len(log) : IsPut(log[i]) => i > 1 /\ IsStoreAdd(log[i - 1])
        /\ Cardinality({i \in 1..Len(log) : IsPut(log[i])}) <= Len(sa)
        /\ Cardinality({i \in 1..Len(log) : IsUploadAdd(log[i])}) <= 1

\* Upload returned an error that a retry could have overcome: a store/add
\* failed, and a transfer or an upload/add failed
C6_Witness ==
  \E r \in Reqs :
    /\ Returned(r)
    /\ Len(net[r]) >= 3
    /\ LET e == net[r][Len(net[r])]
       IN  \/ IsStoreAdd(e) /\ e.out = "err"
           \/ IsPut(e) /\ e.res = "doErr"
           \/ IsUploadAdd(e) /\ e.out = "rcptErr"

(* ------------------------------- C7 ------------------------------------ *)
\* C7: cleanup never masks the original error: when createCar or the storage
\* client's upload fails, Upload returns that failure's error, whether the
\* removal of the temporary file succeeds or fails.
C7_CleanupKeepsOriginalError ==
  \A r \in Reqs :
    Returned(r) =>
      /\ loc[r].ccErr # NoErr => ret[r].err = <<"failed generating CAR">> \o loc[r].ccErr
      /\ loc[r].werr # NoErr => ret[r].err = <<"failed archiving CAR">> \o loc[r].werr

\* Upload returned the error of a failed upload although the removal failed too
C7_Witness ==
  \E r \in Reqs :
    /\ Returned(r)
    /\ loc[r].werr = <<"receipt">>
    /\ loc[r].cErr # NoErr
    /\ ret[r].err = <<"failed archiving CAR", "receipt">>

(* ------------------------------- C8 ------------------------------------ *)
\* C8 (as claimed): when createCar and the storage client's upload both
\* succeed, Upload reports success with the root and shard identifiers even
\* if removing the temporary file fails.
C8_CleanupErrorNeverOverridesSuccess ==
  \A r \in Reqs :
    (Returned(r) /\ BothSucceeded(r)) =>
      /\ ret[r].err = NoErr
      /\ ret[r].result = [Root |-> loc[r].root, Shard |-> loc[r].shdlnks[1]]

\* C8 (amended): when createCar and the storage client's upload both succeed,
\* the result Upload returns carries the root and the first shard identifier
\* even if removing the temporary file fails, but Upload reports success (a
\* nil error) only if the removal succeeds too.
C8_ResultKeptButErrorSetOnCleanupFailure ==
  \A r \in Reqs :
    (Returned(r) /\ BothSucceeded(r)) =>
      /\ ret[r].result.Root = DagRoot(stream[r])
      /\ ret[r].result.Shard = CarLink(ExpectedShards(stream[r])[1])
      /\ (ret[r].err = NoErr) <=> (loc[r].cErr = NoErr)

\* a sharded upload succeeded, the removal failed: identifiers and an error
C8_Witness ==
  \E r \in Reqs :
    /\ Returned(r) /\ BothSucceeded(r)
    /\ loc[r].cErr # NoErr
    /\ Len(loc[r].shdlnks) >= 2
    /\ ret[r].result.Root # CidUndef

(* ------------------------------- C9 ------------------------------------ *)
\* C9: a cleanup error surfaces when it is the only failure: when createCar
\* and the storage client's upload both succeed but removing the temporary
\* file fails, Upload returns the removal error.
C9_CleanupErrorSurfacesWhenAlone ==
  \A r \in Reqs :
    (Returned(r) /\ BothSucceeded(r) /\ loc[r].cErr # NoErr) =>
      ret[r].err = <<"failed to remove file">>

\* everything succeeded but the removal, and the file is still there
C9_Witness ==
  \E r \in Reqs :
    /\ Returned(r) /\ BothSucceeded(r)
    /\ loc[r].cErr # NoErr
    /\ disk[dest[r]].exists
    /\ Len(net[r]) > 0 /\ IsUploadAdd(net[r][Len(net[r])])

(* ------------------------------- C10 ----------------------------------- *)
IsPrefix(a, b) == Len(a) <= Len(b) /\ a = SubSeq(b, 1, Len(a))

\* createCar has returned without error
CreateCarSucceeded(r) ==
  \/ pc[r] \in {"up_open", "up_stat", "up_decode", "up_sharder", "up_next", "ss_read",
                "ss_storeadd", "ss_put", "up_uploadadd", "up_close", "up_ret"}
  \/ pc[r] \in {"defer", "returned", "panicked"} /\ loc[r].ccErr = NoErr

\* where createCar stands, and what the container file then looks like
C10_State ==
  \A r \in Reqs :
    LET f == disk[dest[r]]
    IN  /\ pc[r] \in {"cc_write", "cc_finalize"} =>
              /\ f.exists /\ f.open
              /\ f.roots = <<ProxyRoot>>
              /\ IsPrefix(f.blocks, DagBlocks(stream[r]))
        /\ pc[r] = "cc_finalize" => f.blocks = DagBlocks(stream[r])
        /\ pc[r] = "cc_replace" =>
              /\ f.exists /\ ~f.open
              /\ f.roots = <<ProxyRoot>>
              /\ f.blocks = DagBlocks(stream[r])
        /\ (CreateCarSucceeded(r) /\ f.exists) =>
              /\ ~f.open
              /\ f.roots = <<loc[r].root>>
              /\ loc[r].root = DagBlocks(stream[r])[Len(DagBlocks(stream[r]))].cid
              /\ \E i \in 1..Len(f.blocks) : f.blocks[i].cid = f.roots[1]
        /\ (loc[r].ccErr # NoErr /\ f.exists) => f.roots \in {<<>>, <<ProxyRoot>>}

\* every change of the file of a request: created open with the placeholder
\* root, blocks appended while open, closed, and only then the header rewritten
C10_Step ==
  \A r \in Reqs :
    LET f == disk[dest[r]]
        g == disk'[dest[r]]
    IN  /\ (dest[r] \in Paths /\ f.exists /\ g.exists /\ g.roots # f.roots) =>
              /\ pc[r] = "cc_replace"
              /\ ~f.open /\ ~g.open
              /\ g.blocks = f.blocks
              /\ loc[r].ccErr = NoErr
              /\ g.roots = <<loc[r].root>>
        /\ (dest[r] \in Paths /\ f.exists /\ g.exists /\ g.blocks # f.blocks) =>
              /\ pc[r] = "cc_write"
              /\ f.open /\ g.open
              /\ g.roots = f.roots
              /\ \E b \in {DagBlocks(stream[r])[i] : i \in 1..Len(DagBlocks(stream[r]))} :
                   g.blocks = Append(f.blocks, b)
        /\ (dest[r] \in Paths /\ f.exists /\ f.open /\ g.exists /\ ~g.open) =>
              /\ pc[r] = "cc_finalize"
              /\ g.roots = f.roots /\ g.blocks = f.blocks

\* C10: the container is opened with the placeholder root, all blocks are
\* appended, the container is closed for writing, and only after a successful
\* close is the header's root list rewritten; the header is never rewritten
\* while the container is open or after a failed build or close; when
\* createCar succeeds the header's only root is the real root of the DAG,
\* which resolves to a block of the container.
C10_TwoStepFinalizeOrder == [](C10_State) /\ [][C10_Step]_vars

\* createCar succeeded for a stream of several chunks: the header holds the
\* root of the linking node, which differs from the placeholder
C10_Witness ==
  \E r \in Reqs :
    /\ pc[r] = "up_open"
    /\ Len(disk[dest[r]].blocks) >= 3
    /\ disk[dest[r]].roots = <<loc[r].root>>
    /\ loc[r].root.codec = "dag-pb"
    /\ loc[r].root # ProxyRoot

(* ------------------------------- C11 ----------------------------------- *)
\* the shards registered for request r are the single shard c, unchanged
OneShardUnchanged(r, c) ==
  LET sa == StoreAdds(net[r])
  IN  /\ Len(sa) <= 1
      /\ \A k \in 1..Len(sa) : sa[k].link = CarLink(c) /\ sa[k].size = CarLen(c)
      /\ \A i \in 1..Len(net[r]) : IsPut(net[r][i]) => net[r][i].body = c
      /\ \A i \in 1..Len(net[r]) : IsUploadAdd(net[r][i]) => net[r][i].shards = <<CarLink(c)>>
      /\ pc[r] \in {"ss_storeadd", "ss_put"} => loc[r].buf = c

\* C11: for every finalized container whose size is at or under the shard
\* size limit, a container of exactly the limit included, the upload registers
\* exactly one shard, and the bytes of that shard (hence its identifier and
\* declared size) are the bytes of the container file, not decoded or
\* re-encoded.
C11_AtOrUnderLimitOneShardUnchanged ==
  \A r \in Reqs :
    CarLen(FinalCar(stream[r])) <= ShardSize => OneShardUnchanged(r, FinalCar(stream[r]))

\* what the code does: the container is stored unchanged when strictly under the limit
C11_StrictlyUnderLimitOneShardUnchanged ==
  \A r \in Reqs :
    CarLen(FinalCar(stream[r])) < ShardSize => OneShardUnchanged(r, FinalCar(stream[r]))

(* ------------------------------- C12 ----------------------------------- *)
\* the blocks of a sequence of shards, in order
RECURSIVE ConcatBlocks(_)
ConcatBlocks(shards) ==
  IF shards = <<>> THEN <<>> ELSE Head(shards).blocks \o ConcatBlocks(Tail(shards))

\* serialized size of a shard: its header without roots, then its blocks
ShardLen(sh) ==
  LET RECURSIVE Sum(_)
      Sum(i) == IF i = 0 THEN 0
                ELSE Sum(i - 1) + CidLen + Len(sh.blocks[i].data.bytes)
                                + Len(sh.blocks[i].data.links)
  IN  1 + CidLen * Len(sh.roots) + Sum(Len(sh.blocks))

\* the shards cut from the blocks under the limit are a faithful split
FaithfulSplit(shards, blocks, limit) ==
  /\ ConcatBlocks(shards) = blocks
  /\ \A k \in 1..Len(shards) :
       /\ shards[k].roots = <<>>
       /\ Len(shards[k].blocks) >= 1
       /\ ShardLen(shards[k]) <= limit \/ Len(shards[k].blocks) = 1
       /\ \A i \in 1..Len(shards[k].blocks) :
            ShardLen(Car(<<>>, <<shards[k].blocks[i]>>)) > limit => Len(shards[k].blocks) = 1

\* C12: for every container and size limit the sharder yields a finite ordered
\* sequence of shards whose block sequences, concatenated in order, are the
\* block sequence of the container (nothing dropped, duplicated, reordered or
\* split); every shard is at most the limit in serialized size unless it
\* holds a single block that alone exceeds the limit, and such a block is a
\* shard on its own.
C12_ShardsAreAFaithfulSplit ==
  \A r \in Reqs :
    /\ pc[r] = "idle" =>
         \A limit \in 1..MaxLimit :
           FaithfulSplit(ShardFrom(DagBlocks(stream[r]), <<>>, limit),
                         DagBlocks(stream[r]), limit)
    /\ (pc[r] = "up_next" /\ net[r] = <<>>) =>
         FaithfulSplit(loc[r].shds, disk[dest[r]].blocks, ShardSize)

\* the sharder has cut the container of a request into three shards, and under
\* a smaller limit one of its blocks alone exceeds the limit
C12_Witness ==
  \E r \in Reqs :
    /\ pc[r] = "up_next" /\ net[r] = <<>>
    /\ Len(loc[r].shds) = 3
    /\ \E limit \in 1..MaxLimit :
         \E k \in 1..Len(ShardFrom(loc[r].decoded, <<>>, limit)) :
           ShardLen(ShardFrom(loc[r].decoded, <<>>, limit)[k]) > limit

(* ------------------------------- C13 ----------------------------------- *)
\* everything that belongs to request r alone
Own(r) == <<pc[r], dest[r], loc[r], net[r], ret[r]>>

\* the identifiers of the shards a stream is stored as
RECURSIVE LinksOf(_)
LinksOf(shards) ==
  IF shards = <<>> THEN <<>> ELSE <<CarLink(Head(shards))>> \o LinksOf(Tail(shards))

\* what request r has read, sent and returned stems from its own stream
OwnDataOnly(r) ==
  LET own == ExpectedShards(stream[r])
      ownSet == {own[k] : k \in 1..Len(own)}
  IN  /\ \A i \in 1..Len(net[r]) :
           /\ IsStoreAdd(net[r][i]) => \E c \in ownSet : net[r][i].link = CarLink(c)
           /\ IsPut(net[r][i]) => net[r][i].body \in ownSet
           /\ IsUploadAdd(net[r][i]) => net[r][i].root = FinalCar(stream[r]).roots[1]
      /\ pc[r] \in {"ss_storeadd", "ss_put"} => loc[r].buf \in ownSet
      /\ BothSucceeded(r) =>
           /\ ret[r].result.Root = FinalCar(stream[r]).roots[1]
           /\ ret[r].result.Shard = LinksOf(own)[1]

C13_State ==
  /\ \A r, q \in Reqs : (r # q /\ dest[r] # "" /\ dest[q] # "") => dest[r] # dest[q]
  /\ \A r \in Reqs : OwnDataOnly(r)
  /\ w3s = NewW3sclient

C13_Step ==
  /\ w3s' = w3s
  /\ \A p \in Paths :
       disk'[p] # disk[p] =>
         \E r \in Reqs :
           /\ dest[r] = p
           /\ \A q \in Reqs \ {r} : Own(q)' = Own(q) /\ dest[q] # p

C14_CancellationAbortsAtNextBoundary ==
  /\ [][\A r \in Reqs :
          loc[r].cancelled =>
            /\ net'[r] = net[r]
            /\ disk'[dest[r]].exists => disk'[dest[r]].blocks = disk[dest[r]].blocks]_vars
  /\ [](\A r \in Reqs : (Returned(r) /\ loc[r].cancelled) => loc[r].rm = 1)

(* ------------------------------- C15 ----------------------------------- *)
\* C15: when reading the input stream fails during the build, createCar
\* returns the error without rewriting the header with the real root, Upload
\* goes straight to its return with an error and an empty result, and no
\* store/add, transfer or upload/add is issued for the request.
C15_ReadFailureYieldsNoRootAndNoInvocation ==
  \A r \in Reqs :
    loc[r].ccErr = <<"read">> =>
      /\ pc[r] \in {"defer", "returned"}
      /\ net[r] = <<>>
      /\ loc[r].root = CidUndef
      /\ disk[dest[r]].exists => disk[dest[r]].roots # FinalCar(stream[r]).roots
      /\ ret[r].err = <<"failed generating CAR", "read">>
      /\ ret[r].result = [Root |-> CidUndef, Shard |-> CidUndef]

\* the read failed after a block had been written, and Upload is about to
\* run its deferred removal
C15_Witness ==
  \E r \in Reqs :
    /\ loc[r].ccErr = <<"read">>
    /\ pc[r] = "defer"
    /\ Len(disk[dest[r]].blocks) >= 1

(* ------------------------------- C16 ----------------------------------- *)
\* the payload below the block named c: the bytes of a leaf, and for a node
\* the payloads below its links, in link order
RECURSIVE PayloadBelow(_, _)
PayloadBelow(blocks, c) ==
  LET i  == CHOOSE i \in 1..Len(blocks) : blocks[i].cid = c
      ls == blocks[i].data.links
      RECURSIVE Cat(_)
      Cat(k) == IF k = 0 THEN <<>> ELSE Cat(k - 1) \o PayloadBelow(blocks, ls[k].cid)
  IN  IF ls = <<>> THEN blocks[i].data.bytes ELSE Cat(Len(ls))

\* decoding a container from its header root
DecodeDag(f) == PayloadBelow(f.blocks, f.roots[1])

\* C16: for every input stream, the container createCar has built, finalized
\* and given its real root decodes, from the header root and with the leaf
\* payloads concatenated in DAG order, to exactly the stream; for a container
\* of a single block this is what the test's extract reads.
C16_BuildThenDecodeIsTheStream ==
  \A r \in Reqs :
    (CreateCarSucceeded(r) /\ disk[dest[r]].exists) =>
      /\ \E i \in 1..Len(disk[dest[r]].blocks) :
           disk[dest[r]].blocks[i].cid = disk[dest[r]].roots[1]
      /\ DecodeDag(disk[dest[r]]) = stream[r]
      /\ Len(disk[dest[r]].blocks) = 1 => extract(disk[dest[r]]) = stream[r]

\* a stream of more than one chunk has been built and finalized
C16_Witness ==
  \E r \in Reqs :
    /\ pc[r] = "up_open"
    /\ Len(stream[r]) = MaxLen
    /\ Len(disk[dest[r]].blocks) >= 3

(* ------------------------------- C17 ----------------------------------- *)
\* C17: on success the result's Root is the root createCar computed, which is
\* the root in the header of the container and the root upload/add carried,
\* and the result's Shard is the identifier of the shard that was registered
\* first, the first in the shard list of upload/add.
C17_ResultIsRootAndFirstShard ==
  \A r \in Reqs :
    (BothSucceeded(r) /\ ret[r].err = NoErr) =>
      LET last == net[r][Len(net[r])]
          sa   == StoreAdds(net[r])
      IN  /\ ret[r].result.Root = loc[r].root
          /\ disk[dest[r]].exists => disk[dest[r]].roots = <<ret[r].result.Root>>
          /\ last.type = "upload/add" /\ last.root = ret[r].result.Root
          /\ ret[r].result.Shard = sa[1].link
          /\ ret[r].result.Shard = last.shards[1]

\* an Upload that registered more than one shard has returned its result
C17_Witness ==
  \E r \in Reqs :
    /\ Returned(r) /\ BothSucceeded(r) /\ ret[r].err = NoErr
    /\ Len(StoreAdds(net[r])) >= 2
    /\ StoreAdds(net[r])[1].link # StoreAdds(net[r])[2].link

(* ------------------------------- C18 ----------------------------------- *)
\* the answers of the service to the store/add invocations of a request
Receipts(log) ==
  LET sa == StoreAdds(log) IN [k \in 1..Len(sa) |-> sa[k].rcpt]

\* the shard identifiers a request has registered with store/add, in order
SentLinks(log) ==
  LET sa == StoreAdds(log) IN [k \in 1..Len(sa) |-> sa[k].link]

BlockOffset(f, i) == ShardLen([roots |-> f.roots, blocks |-> SubSeq(f.blocks, 1, i - 1)])

\* the rewrite of the header of request r's container has just been done
C19_Step ==
  \A r \in Reqs :
    (pc[r] = "cc_replace" /\ pc'[r] = "up_open") =>
      LET old == disk[dest[r]]
          new == disk'[dest[r]]
      IN  /\ new.roots = <<loc[r].root>>
          /\ new.blocks = old.blocks
          /\ \A i \in 1..(Len(old.blocks) + 1) : BlockOffset(new, i) = BlockOffset(old, i)
          /\ new.exists = old.exists /\ new.open = old.open

\* rewriting the finalized container with the same root again changes nothing
C19_State ==
  \A r \in Reqs :
    (CreateCarSucceeded(r) /\ disk[dest[r]].exists) =>
      /\ SameHeaderSize(disk[dest[r]], <<loc[r].root>>)
      /\ ReplaceRootsInFile(disk[dest[r]], <<loc[r].root>>) = disk[dest[r]]

InClientUpload(r) ==
  pc[r] \in {"up_open", "up_stat", "up_decode", "up_sharder", "up_next", "ss_read",
             "ss_storeadd", "ss_put", "up_uploadadd", "up_close"}

\* the file of request r is there, closed, with the real root and every block
FinalizedOnDisk(r) ==
  /\ disk[dest[r]].exists
  /\ ~disk[dest[r]].open
  /\ disk[dest[r]].roots = FinalCar(stream[r]).roots
  /\ disk[dest[r]].blocks = FinalCar(stream[r]).blocks

C21_State ==
  \A r \in Reqs :
    InClientUpload(r) =>
      /\ loc[r].ccErr = NoErr
      /\ loc[r].root = FinalCar(stream[r]).roots[1]
      /\ loc[r].rm = 0
      /\ FinalizedOnDisk(r)

C21_Step ==
  \A r \in Reqs :
    /\ (~InClientUpload(r) /\ InClientUpload(r)') => pc[r] = "cc_replace"
    /\ net'[r] # net[r] => FinalizedOnDisk(r) /\ FinalizedOnDisk(r)'
    /\ (dest[r] # "" /\ disk[dest[r]].exists /\ ~disk'[dest[r]].exists) =>
         pc[r] = "defer" /\ ~loc[r].fopen

\* C21: the temporary container file exists, closed and finalized with the
\* real root, as long as the storage client's upload call runs: the call is
\* entered only from the successful end of createCar, every invocation and
\* transfer is issued with the file in place, and the file is removed only
\* by the deferred removal, after the client's upload has returned.
C21_FileInPlaceDuringClientUpload == [](C21_State) /\ [][C21_Step]_vars

\* the client is about to send upload/add for a container of several shards
\* and the file is still in place
C21_Witness ==
  \E r \in Reqs :
    /\ pc[r] = "up_uploadadd"
    /\ Len(loc[r].shdlnks) >= 2
    /\ FinalizedOnDisk(r)

(* ------------------------------- C22 ----------------------------------- *)
\* a header name in lower case (HTTP header names are case-insensitive)
LowerName(name) == IF name = "Content-Length" THEN "content-length" ELSE name

\* the transfer at position i carries the headers of the receipt before it
\* without those named by skip, and declares the length of the bytes sent
ForwardsHeadersExcept(log, i, Skipped(_)) ==
  /\ i > 1 /\ IsStoreAdd(log[i - 1])
  /\ log[i].hdr = {kv \in log[i - 1].rcpt.headers : ~Skipped(kv[1])}
  /\ log[i].clen = ShardLen(log[i].body)

\* C22: a direct transfer request carries every header the store/add receipt
\* supplied, with its value, except the content-length header, which is left
\* out whatever the letter case of its name; the content length of the
\* request is the number of shard bytes sent.
C22_ContentLengthNeverForwarded ==
  \A r \in Reqs :
    \A i \in 1..Len(net[r]) :
      IsPut(net[r][i]) =>
        LET IsContentLength(name) == LowerName(name) = "content-length"
        IN  ForwardsHeadersExcept(net[r], i, IsContentLength)

\* what the code does: only the name in lower case is left out
C22_LowercaseContentLengthNotForwarded ==
  \A r \in Reqs :
    \A i \in 1..Len(net[r]) :
      IsPut(net[r][i]) =>
        LET IsLowercaseContentLength(name) == name = "content-length"
        IN  ForwardsHeadersExcept(net[r], i, IsLowercaseContentLength)

(* ------------------------------- C23 ----------------------------------- *)
\* C23 (as claimed): whenever Upload returns an error, the result it returns
\* is the zero value, also when the only failure is the removal of the
\* temporary file after a successful upload.
C23_NoIdentifiersWithAnError ==
  \A r \in Reqs :
    (Returned(r) /\ ret[r].err # NoErr) =>
      ret[r].result = [Root |-> CidUndef, Shard |-> CidUndef]

\* C23 (amended): when Upload returns an error because createCar or the
\* storage client's upload failed, the result is the zero value; when the only
\* failure is the removal of the temporary file, the error is the removal's
\* and the result still carries the root and the first shard identifier.
C23_ZeroResultUnlessOnlyRemovalFailed ==
  \A r \in Reqs :
    (Returned(r) /\ ret[r].err # NoErr) =>
      IF loc[r].ccErr # NoErr \/ loc[r].werr # NoErr
        THEN /\ ret[r].result = [Root |-> CidUndef, Shard |-> CidUndef]
             /\ ret[r].err[1] \in {"failed generating CAR", "failed archiving CAR"}
        ELSE /\ ret[r].err = <<"failed to remove file">>
             /\ loc[r].cErr = ret[r].err
             /\ ret[r].result.Root = FinalCar(stream[r]).roots[1]
             /\ ret[r].result.Shard = SentLinks(net[r])[1]

\* the upload of a single shard succeeded and only the removal failed: Upload
\* has returned the removal's error together with the identifiers
C23_Witness ==
  \E r \in Reqs :
    /\ Returned(r)
    /\ ret[r].err = <<"failed to remove file">>
    /\ ret[r].result.Root # CidUndef /\ ret[r].result.Shard # CidUndef
    /\ Len(SentLinks(net[r])) = 1
    /\ disk[dest[r]].exists

(* ------------------------------- C24 ----------------------------------- *)
\* w3sclient.upload of request r has returned without error
ClientUploadSucceeded(r) ==
  /\ pc[r] \in {"up_ret", "defer", "returned", "panicked"}
  /\ loc[r].ccErr = NoErr
  /\ loc[r].werr = NoErr
  /\ net[r] # <<>> /\ net[r][Len(net[r])].type = "upload/add"

\* C24: whenever w3sclient.upload returns without error the shard list it
\* returns has at least one element, so that Upload's read of the first shard
\* is defined and never panics; no upload/add is sent with an empty shard
\* list, on the sharded path as on the other.
C24_ShardListNeverEmpty ==
  \A r \in Reqs :
    /\ \A i \in 1..Len(net[r]) :
         net[r][i].type = "upload/add" =>
           /\ Len(net[r][i].shards) >= 1
           /\ Len(net[r][i].shards) = Len(SentLinks(SubSeq(net[r], 1, i)))
    /\ pc[r] = "up_uploadadd" => Len(loc[r].shdlnks) >= 1
    /\ ClientUploadSucceeded(r) =>
         /\ Len(loc[r].shdlnks) >= 1
         /\ ~loc[r].panic
         /\ pc[r] # "panicked"

\* w3sclient.upload has returned without error on the sharded path
C24_Witness ==
  \E r \in Reqs :
    /\ pc[r] = "up_ret"
    /\ ClientUploadSucceeded(r)
    /\ loc[r].sharded
    /\ net[r][Len(net[r])].out = "ok"

(* ------------------------------- C25 ----------------------------------- *)
\* the handler of request r has called Uploader.Upload
UploadCalled(r) == pc[r] = "idle" \/ dest[r] # ""

\* the responses the handler gives when it ends
HandlerResponses(r) ==
  /\ UploadCalled(r) => loc[r].hreq = "file" /\ loc[r].part = "file"
  /\ pc[r] = "h_done" =>
       /\ loc[r].resp.status # 0
       /\ loc[r].hreq = "notMultipart" => loc[r].resp.status = 400
       /\ loc[r].hreq = "other" => loc[r].resp.status = 400
       /\ loc[r].hreq = "noParts" => loc[r].resp.status >= 400
       /\ (loc[r].hreq = "file" /\ ret[r].err # NoErr) =>
            loc[r].resp = [status |-> 500, body |-> <<>>]
       /\ (loc[r].hreq = "file" /\ ret[r].err = NoErr) => loc[r].resp.status = 200

\* C25: for every request the upload handler ends with a response and never
\* crashes; it calls Uploader.Upload only when a first part exists and is
\* named "file"; a non-multipart request gets a 400, a first part with
\* another name gets a 400, a multipart body with no parts gets an error
\* response, and a failure of Upload gets a 500 with an empty body.
C25_HandlerAlwaysResponds ==
  \A r \in Reqs :
    /\ pc[r] # "h_panicked"
    /\ HandlerResponses(r)

\* what the code does: whenever the handler does end, its response is the
\* one claimed
C25_ResponsesWhenTheHandlerEnds == \A r \in Reqs : HandlerResponses(r)

====
